---- MODULE Spec2Model ----
(***************************************************************************)
(* Result cache and outcome classification of the lychee link checker.     *)
(*   lychee-bin/src/cache.rs          Cache = DashMap<String, Status>,     *)
(*                                    StoreExt::store / StoreExt::load     *)
(*   lychee-lib/src/types/status.rs   Status, Status::new, Status::icon,   *)
(*                                    From<reqwest::Error> for Status      *)
(*   lychee-lib/src/types/error.rs    ErrorKind, PartialEq, Hash, serde    *)
(***************************************************************************)
EXTENDS Integers, Sequences, FiniteSets, TLC

VARIABLES
    cache,      \* the DashMap: identifier -> Option<Status>, as last fully written
    lock,       \* per shard: the RwLock of that shard
    task,       \* per checking task: its position inside insert / get, with
                \* old: the value last stored when get was called / insert took
                \* the shard, racing: the inserts in flight during the get
    lastDone,   \* per identifier: the value of the insert that finished last
    calls,      \* number of insert / get calls made so far
    st,         \* StoreExt::store: position of the serializer's iteration
    hist,       \* the map contents seen since the running store call began
    file,       \* the cache file on disk
    ld,         \* StoreExt::load: outcome of the call
    cmp,        \* ErrorKind::eq / ErrorKind::hash: operands and results
    cls,        \* Status::new / Status::from: input and result
    ico         \* Status::icon: two verdicts and their icons

vars == <<cache, lock, task, lastDone, calls, st, hist, file, ld, cmp, cls, ico>>

(***************************************************************************)
(* Option<T>                                                               *)
(***************************************************************************)
None == <<>>
Some(x) == <<x>>
IsSome(o) == o # <<>>
Unwrap(o) == o[1]

(***************************************************************************)
(* ErrorKind (error.rs 21-117).  External error payloads are represented   *)
(* by the parts of them the code reads: io::Error by kind() and its        *)
(* message, the others by their Display text; InvalidHeaderValue has no    *)
(* fields and a fixed Display text, `inst` tells two Arc instances apart.  *)
(***************************************************************************)
Paths == {"a.md", "b.md"}
Uris == {"http://a", "http://b"}
Texts == {"m1", "m2"}
IoKinds == {"NotFound", "Other"}

Io(p, k, m) == [variant |-> "Io", path |-> p, kind |-> k, msg |-> m]
Client(e, s) == [variant |-> "Client", err |-> e, status |-> s]
MissingHost == [variant |-> "MissingHost"]
MissingGitHubToken == [variant |-> "MissingGitHubToken"]

ErrorKind ==
    { Io(p, k, m) : p \in {None} \cup {Some(x) : x \in Paths}, k \in IoKinds, m \in Texts }
    \cup { [variant |-> "Encoding", text |-> m] : m \in Texts }
    \cup { Client(e, s) : e \in Texts, s \in {None, Some(404)} }
    \cup { [variant |-> "Github", text |-> m] : m \in Texts }
    \cup { [variant |-> "Parse", input |-> m, urlerr |-> u, mailerr |-> e] :
             m \in Texts, u \in {"EmptyHost", "InvalidPort"},
             e \in {None, Some("NoSignAt")} }
    \cup { [variant |-> "UrlFromPath", p |-> x] : x \in Paths }
    \cup { [variant |-> "FileNotFound", p |-> x] : x \in Paths }
    \cup { [variant |-> "FileUriNotFound", uri |-> u] : u \in Uris }
    \cup { [variant |-> "Mail", uri |-> u] : u \in Uris }
    \cup { [variant |-> "Header", inst |-> m] : m \in Texts }
    \cup { [variant |-> "Base", base |-> b, text |-> m] : b \in Paths, m \in Texts }
    \cup { [variant |-> "DirTraversal", text |-> m] : m \in Texts }
    \cup { [variant |-> "Glob", text |-> m, pos |-> n] : m \in Texts, n \in {0, 1} }
    \cup { MissingGitHubToken }
    \cup { [variant |-> "InsecureURL", uri |-> u] : u \in Uris }
    \cup { [variant |-> "Channel", text |-> m] : m \in Texts }
    \cup { MissingHost }
    \cup { [variant |-> "InvalidURI", uri |-> u] : u \in Uris }

\* impl PartialEq for ErrorKind: the match on (self, other), arm by arm.
ErrorKind_eq(a, b) ==
    CASE a.variant = "Io" /\ b.variant = "Io" ->
            a.path = b.path /\ a.kind = b.kind
      [] a.variant = "Client" /\ b.variant = "Client" ->
            a.err = b.err /\ a.status = b.status
      [] a.variant = "Github" /\ b.variant = "Github" ->
            a.text = b.text
      [] a.variant = "Parse" /\ b.variant = "Parse" ->
            a.input = b.input /\ a.urlerr = b.urlerr /\ a.mailerr = b.mailerr
      [] a.variant = "Mail" /\ b.variant = "Mail" ->
            a.uri = b.uri
      [] a.variant = "InsecureURL" /\ b.variant = "InsecureURL" ->
            a.uri = b.uri
      [] a.variant = "Glob" /\ b.variant = "Glob" ->
            a.text = b.text /\ a.pos = b.pos
      [] a.variant = "Header" /\ b.variant = "Header" -> TRUE
      [] a.variant = "MissingGitHubToken" /\ b.variant = "MissingGitHubToken" -> TRUE
      [] OTHER -> FALSE

\* Display of the wrapped external errors that ErrorKind::hash formats.
InvalidHeaderValue_to_string(e) == "failed to parse header value"
PatternError_to_string(e) == <<"Pattern syntax error near position", e.pos, e.text>>

\* A hash over every field of the value, the wrapped error's message included.
ErrorKind_hash_all_fields(e) == <<e>>

\* impl Hash for ErrorKind: the values written to the hasher, in order.
\* Two hashes are equal when the same values were written.
ErrorKind_hash(e) ==
    CASE e.variant = "Io" -> <<e.path, e.kind>>
      [] e.variant = "Client" -> <<e.err, e.status>>
      [] e.variant = "Github" -> <<e.text>>
      [] e.variant = "DirTraversal" -> <<e.text>>
      [] e.variant = "FileNotFound" -> <<e.p>>
      [] e.variant = "Parse" -> <<e.input, "TypeId">>
      [] e.variant = "InvalidURI" -> <<e.uri>>
      [] e.variant = "UrlFromPath" -> <<e.p>>
      [] e.variant = "Encoding" -> <<e.text>>
      [] e.variant \in {"FileUriNotFound", "Mail", "InsecureURL"} -> <<e.uri>>
      [] e.variant = "Base" -> <<e.base, e.text>>
      [] e.variant = "Header" -> <<InvalidHeaderValue_to_string(e)>>
      [] e.variant = "Glob" -> <<PatternError_to_string(e)>>
      [] e.variant = "Channel" -> <<e.text>>
      [] e.variant \in {"MissingGitHubToken", "MissingHost"} -> <<"discriminant", e.variant>>

(***************************************************************************)
(* Status (status.rs 62-79)                                                *)
(***************************************************************************)
Ok(c) == [tag |-> "Ok", code |-> c]
Error(e) == [tag |-> "Error", cause |-> e]
Timeout(o) == [tag |-> "Timeout", opt |-> o]
Redirected(c) == [tag |-> "Redirected", code |-> c]
UnknownStatusCode(c) == [tag |-> "UnknownStatusCode", code |-> c]
Excluded == [tag |-> "Excluded"]
Unsupported(e) == [tag |-> "Unsupported", cause |-> e]

\* #[derive(PartialEq)] on Status: same variant and equal fields, the boxed
\* ErrorKind compared by ErrorKind::eq.
Status_eq(a, b) ==
    /\ a.tag = b.tag
    /\ CASE a.tag \in {"Ok", "Redirected", "UnknownStatusCode"} -> a.code = b.code
         [] a.tag = "Timeout" -> a.opt = b.opt
         [] a.tag \in {"Error", "Unsupported"} -> ErrorKind_eq(a.cause, b.cause)
         [] OTHER -> TRUE

\* http::StatusCode: the valid codes and the range predicates Status::new calls.
StatusCodes == 100..999
is_success(c) == c \in 200..299
is_redirection(c) == c \in 300..399
is_client_error(c) == c \in 400..499
is_server_error(c) == c \in 500..599

\* reqwest::Error as far as From<reqwest::Error> reads it: is_timeout(),
\* is_builder(), status() and the Display text.
ReqwestError(t, b, s, m) == [timeout |-> t, builder |-> b, status |-> s, text |-> m]

\* A response check that reports only client errors.
error_for_status_ref_client_only(code) ==
    IF is_client_error(code)
    THEN [ok |-> FALSE, err |-> ReqwestError(FALSE, FALSE, Some(code), "HTTP status client error")]
    ELSE [ok |-> TRUE]

\* Response::error_for_status_ref as called by Status::new: an error of kind
\* Status carrying the code when the code is a client or server error.
error_for_status_ref(code) ==
    IF is_client_error(code) \/ is_server_error(code)
    THEN [ok |-> FALSE,
          err |-> ReqwestError(FALSE, FALSE, Some(code),
                               IF is_client_error(code) THEN "HTTP status client error"
                                                        ELSE "HTTP status server error")]
    ELSE [ok |-> TRUE]

\* The conversion with the builder test ahead of the timeout test.
From_reqwest_Error_builder_first(e) ==
    IF e.builder THEN Unsupported(Client(e.text, e.status))
    ELSE IF e.timeout THEN Timeout(e.status)
    ELSE Error(Client(e.text, e.status))

\* impl From<reqwest::Error> for Status
From_reqwest_Error(e) ==
    IF e.timeout THEN Timeout(e.status)
    ELSE IF e.builder THEN Unsupported(Client(e.text, e.status))
    ELSE Error(Client(e.text, e.status))

\* The else branch of Status::new: the match on error_for_status_ref.
Status_new_by_range(code) ==
    LET r == error_for_status_ref(code)
    IN  IF r.ok /\ is_success(code) THEN Ok(code)
        ELSE IF r.ok /\ is_redirection(code) THEN Redirected(code)
        ELSE IF r.ok THEN UnknownStatusCode(code)
        ELSE From_reqwest_Error(r.err)

\* Status::new with the transport's error judgment consulted before the accepted set.
Status_new_range_first(code, accepted) ==
    IF ~error_for_status_ref(code).ok THEN Status_new_by_range(code)
    ELSE IF IsSome(accepted) /\ code \in Unwrap(accepted) THEN Ok(code)
    ELSE Status_new_by_range(code)

\* Status::new(response, accepted), the response given by its status code.
Status_new(code, accepted) ==
    IF IsSome(accepted) /\ code \in Unwrap(accepted) THEN Ok(code)
    ELSE Status_new_by_range(code)

\* Display of http::StatusCode: the number and its canonical reason.
StatusCode_fmt(c) == <<"code", c, "reason", c>>

\* Display of ErrorKind: the #[error(..)] format strings, as the literal
\* pieces and the arguments they interpolate, in order; a quoting character
\* of the format string is written by its code point.
ErrorKind_fmt(e) ==
    CASE e.variant = "Io" ->
            <<"Failed to read from path: ", "U+0060",
              IF IsSome(e.path) THEN Unwrap(e.path) ELSE "<MALFORMED PATH>",
              "U+0060", ", reason: ", e.msg>>
      [] e.variant = "Encoding" ->
            <<"Attempted to interpret an invalid sequence of bytes as a string: ", e.text>>
      [] e.variant = "Client" ->
            <<"Network error while trying to connect to an endpoint: ", e.err>>
      [] e.variant = "Github" ->
            <<"Network error when trying to connect to an endpoint via hubcaps: ", e.text>>
      [] e.variant = "Parse" ->
            <<"Cannot parse ", e.input, " as website url, file path, or mail address: (",
              e.urlerr, e.mailerr, ")">>
      [] e.variant = "UrlFromPath" -> <<"Invalid path to URL conversion: ", e.p>>
      [] e.variant = "FileNotFound" -> <<"Cannot find local file ", e.p>>
      [] e.variant = "FileUriNotFound" -> <<"Cannot find file ", e.uri>>
      [] e.variant = "Mail" -> <<"Unreachable mail address: ", e.uri>>
      [] e.variant = "Header" ->
            <<"Header could not be parsed: ", InvalidHeaderValue_to_string(e)>>
      [] e.variant = "Base" -> <<"Error with base dir ", "U+0060", e.base, "U+0060", " : ", e.text>>
      [] e.variant = "DirTraversal" -> <<"Cannot traverse input directory: ", e.text>>
      [] e.variant = "Glob" -> <<"UNIX glob pattern is invalid">>
      [] e.variant = "MissingGitHubToken" ->
            <<"GitHub token not specified. To check GitHub links reliably, use ",
              "U+0060", "--github-token", "U+0060", " flag / ",
              "U+0060", "GITHUB_TOKEN", "U+0060", " env var.">>
      [] e.variant = "InsecureURL" ->
            <<"This URI is available in HTTPS protocol, but HTTP is provided, use ",
              "U+0027", e.uri, "U+0027", " instead">>
      [] e.variant = "Channel" ->
            <<"Cannot send/receive message from channel: ", e.text>>
      [] e.variant = "MissingHost" -> <<"URL is missing a host">>
      [] e.variant = "InvalidURI" -> <<"The given URI is invalid: ", e.uri>>

\* impl Display for Status: the text written, as the literal pieces and the
\* interpolated arguments, in order.
Status_fmt(s) ==
    CASE s.tag = "Ok" -> <<"OK (">> \o StatusCode_fmt(s.code) \o <<")">>
      [] s.tag = "Redirected" -> <<"Redirect (">> \o StatusCode_fmt(s.code) \o <<")">>
      [] s.tag = "UnknownStatusCode" -> <<"Unknown status: ">> \o StatusCode_fmt(s.code)
      [] s.tag = "Excluded" -> <<"Excluded">>
      [] s.tag = "Timeout" /\ IsSome(s.opt) ->
            <<"Timeout: ">> \o StatusCode_fmt(Unwrap(s.opt))
      [] s.tag = "Timeout" /\ ~IsSome(s.opt) -> <<"Timeout">>
      [] s.tag = "Unsupported" -> <<"Unsupported: ">> \o ErrorKind_fmt(s.cause)
      [] s.tag = "Error" -> <<"Failed: ">> \o ErrorKind_fmt(s.cause)

\* The icon constants, by code point.
ICON_OK == "U+2714"
ICON_REDIRECTED == "U+21C4"
ICON_EXCLUDED == "U+003F"
ICON_UNSUPPORTED == "U+003F"
ICON_UNKNOWN == "U+003F"
ICON_ERROR == "U+2717"
ICON_TIMEOUT == "U+29D6"

\* Status::icon with the timeout arm returning the error icon.
icon_timeout_as_error(s) ==
    CASE s.tag = "Ok" -> ICON_OK
      [] s.tag = "Redirected" -> ICON_REDIRECTED
      [] s.tag = "UnknownStatusCode" -> ICON_UNKNOWN
      [] s.tag = "Excluded" -> ICON_EXCLUDED
      [] s.tag = "Error" -> ICON_ERROR
      [] s.tag = "Timeout" -> ICON_ERROR
      [] s.tag = "Unsupported" -> ICON_UNSUPPORTED

\* Status::icon
icon(s) ==
    CASE s.tag = "Ok" -> ICON_OK
      [] s.tag = "Redirected" -> ICON_REDIRECTED
      [] s.tag = "UnknownStatusCode" -> ICON_UNKNOWN
      [] s.tag = "Excluded" -> ICON_EXCLUDED
      [] s.tag = "Error" -> ICON_ERROR
      [] s.tag = "Timeout" -> ICON_TIMEOUT
      [] s.tag = "Unsupported" -> ICON_UNSUPPORTED

(***************************************************************************)
(* Bounds of the cache model                                               *)
(***************************************************************************)
MaxId == 4
NumShards == 3
NumTasks == 2
MaxCalls == 2

Ids == 1..MaxId
Shards == 0..(NumShards - 1)
Tasks == 1..NumTasks

\* The state of the cache machine before any call (an empty DashMap).
IdleTask == [pc |-> "idle", id |-> 1, v |-> Excluded, ret |-> None, obs |-> None,
             old |-> None, racing |-> {}]
IdleStore == [pc |-> "idle", shard |-> 0, held |-> None, todo |-> {},
              snap |-> None, result |-> "none"]
IdleLoad == [state |-> "idle"]
CacheIdle(D) ==
    /\ cache = [i \in D |-> None]
    /\ lock = [s \in Shards |-> [writer |-> None, readers |-> {}]]
    /\ task = [t \in Tasks |-> IdleTask]
    /\ lastDone = [i \in D |-> None]
    /\ calls = 0
    /\ st = IdleStore
    /\ hist = {}
    /\ file = None
    /\ ld = IdleLoad
cacheVars == <<cache, lock, task, lastDone, calls, st, hist, file, ld>>

(***************************************************************************)
(* serde: what Serialize / Deserialize hand to and take from the format.   *)
(* Str is a string, Num an integer of the serde data model.                *)
(***************************************************************************)
Str(x) == [str |-> x]
Num(n) == [num |-> n]
SerFail == [fail |-> "serialize"]
DeFail == [fail |-> "deserialize"]
SkippedVariants == {"Encoding", "Parse", "Header", "DirTraversal", "Glob", "Channel"}

\* io_error_serialize: only the error's Display text is written.
io_error_serialize(path, kind, msg) == Str(msg)

\* io_error_deserialize: no path, an io::Error of kind Other with the text.
io_error_deserialize(d) == Io(None, "Other", d.str)

\* serialize_statuscode: the code as a number, or none.
serialize_statuscode(status) ==
    IF IsSome(status) THEN Some(Num(Unwrap(status))) ELSE None

\* deserialize_statuscode: reads an Option<String> and parses it.
deserialize_statuscode(d) ==
    IF d = None THEN None
    ELSE IF "str" \in DOMAIN Unwrap(d) THEN Some(Unwrap(d).str)
    ELSE DeFail

\* #[derive(Serialize)] on ErrorKind with its field and variant attributes.
ErrorKind_serialize(e) ==
    CASE e.variant = "Io" ->
            [variant |-> "Io", value |-> io_error_serialize(e.path, e.kind, e.msg)]
      [] e.variant = "Client" ->
            [variant |-> "Client", err |-> Str(e.err),
             status |-> serialize_statuscode(e.status)]
      [] e.variant \in SkippedVariants -> SerFail
      [] OTHER -> [variant |-> e.variant, fields |-> e]

\* #[derive(Deserialize)] on ErrorKind with its field and variant attributes.
ErrorKind_deserialize(d) ==
    CASE d.variant = "Io" -> io_error_deserialize(d.value)
      [] d.variant = "Client" ->
            IF deserialize_statuscode(d.status) = DeFail THEN DeFail
            ELSE Client(d.err.str, deserialize_statuscode(d.status))
      [] OTHER -> d.fields

\* http_status_code_to_string / HttpStatusCodeRef: the code as a decimal string.
http_status_code_to_string(c) == Str(c)

\* #[derive(Serialize)] on Status.
Status_serialize(s) ==
    CASE s.tag \in {"Ok", "Redirected", "UnknownStatusCode"} ->
            [variant |-> s.tag, value |-> http_status_code_to_string(s.code)]
      [] s.tag = "Timeout" ->
            [variant |-> s.tag,
             value |-> IF IsSome(s.opt) THEN Some(http_status_code_to_string(Unwrap(s.opt)))
                                        ELSE None]
      [] s.tag \in {"Error", "Unsupported"} ->
            IF ErrorKind_serialize(s.cause) = SerFail THEN SerFail
            ELSE [variant |-> s.tag, value |-> ErrorKind_serialize(s.cause)]
      [] s.tag = "Excluded" -> [variant |-> s.tag]
      [] OTHER -> SerFail

\* #[derive(Deserialize)] on Status.
Status_deserialize(d) ==
    CASE d.variant \in {"Ok", "Redirected", "UnknownStatusCode"} ->
            [tag |-> d.variant, code |-> d.value.str]
      [] d.variant = "Timeout" ->
            Timeout(IF IsSome(d.value) THEN Some(Unwrap(d.value).str) ELSE None)
      [] d.variant \in {"Error", "Unsupported"} ->
            IF ErrorKind_deserialize(d.value) = DeFail THEN DeFail
            ELSE [tag |-> d.variant, cause |-> ErrorKind_deserialize(d.value)]
      [] OTHER -> Excluded

(***************************************************************************)
(* Cache = DashMap<String, Status>: a table split into shards, each behind *)
(* its own reader-writer lock.  insert takes the key's shard for writing,  *)
(* get and the serializer's iteration take it for reading.                 *)
(***************************************************************************)
determine_shard(i) == i % NumShards

\* What a read of slot i finds: the stored value, or a half-written one while
\* an insert is overwriting the slot.
Torn == [tag |-> "torn"]
Slot(i) ==
    IF \E t \in Tasks : task[t].pc = "insert_locked" /\ task[t].id = i
    THEN Some(Torn)
    ELSE cache[i]

\* A write lock that does not wait for readers to leave.
CanWrite_ignoring_readers(s) == lock[s].writer = None

\* RwLock::write is granted when nobody holds the shard.
CanWrite(s) == lock[s].writer = None /\ lock[s].readers = {}

\* A read that does not wait for the writer.
CanRead_unguarded(s) == TRUE

\* RwLock::read is granted when no writer holds the shard.
CanRead(s) == lock[s].writer = None

\* An insert that hands back the value it has just stored.
HashMap_insert_returns_new(slot, v) == [slot |-> Some(v), ret |-> Some(v)]

\* The shard's HashMap::insert: stores v, returns what the slot held.
HashMap_insert(slot, v) == [slot |-> Some(v), ret |-> slot]

\* The verdicts the checking tasks record.
RecVerdicts == {Ok(200), Error(MissingHost)}

Storing == st.pc = "iter"
pureVars == <<cmp, cls, ico>>

\* Another insert is overwriting slot i at the same time (a data race on the
\* slot, which the shard's write lock excludes).
OtherWriter(t, i) ==
    \E u \in Tasks \ {t} : task[u].pc = "insert_locked" /\ task[u].id = i

\* The values of the inserts for i that have been called and have not returned.
InFlight(i) ==
    { Some(task[u].v) : u \in { w \in Tasks : /\ task[w].pc \in {"insert_wait", "insert_locked"}
                                              /\ task[w].id = i } }

\* cache.insert(i, v) is called.
insert_call(t, i, v) ==
    /\ task[t].pc = "idle"
    /\ calls < MaxCalls
    /\ calls' = calls + 1
    /\ task' = [u \in Tasks |->
                  IF u = t THEN [IdleTask EXCEPT !.pc = "insert_wait", !.id = i, !.v = v]
                  ELSE IF task[u].pc = "get_wait" /\ task[u].id = i
                       THEN [task[u] EXCEPT !.racing = @ \cup {Some(v)}]
                       ELSE task[u]]
    /\ UNCHANGED <<cache, lock, lastDone, st, hist, file, ld, pureVars>>

\* insert holds the shard for writing and starts to overwrite the slot.
insert_lock(t) ==
    LET i == task[t].id
        s == determine_shard(i)
        r == HashMap_insert(cache[i], task[t].v)
    IN  /\ task[t].pc = "insert_wait"
        /\ CanWrite(s)
        /\ lock' = [lock EXCEPT ![s].writer = Some(t)]
        /\ task' = [task EXCEPT ![t].pc = "insert_locked", ![t].ret = r.ret,
                                ![t].old = lastDone[i]]
        /\ UNCHANGED <<cache, lastDone, calls, st, hist, file, ld, pureVars>>

\* the slot holds the new value, the guard is dropped and insert returns
\* task[t].ret to the caller.
insert_unlock(t) ==
    LET i == task[t].id
        s == determine_shard(i)
        r == HashMap_insert(cache[i], task[t].v)
    IN  /\ task[t].pc = "insert_locked"
        /\ cache' = [cache EXCEPT ![i] = IF OtherWriter(t, i) THEN Some(Torn) ELSE r.slot]
        /\ lock' = [lock EXCEPT ![s].writer = None]
        /\ lastDone' = [lastDone EXCEPT ![i] = Some(task[t].v)]
        /\ task' = [task EXCEPT ![t] = IdleTask]
        /\ hist' = IF Storing THEN hist \cup {cache'} ELSE hist
        /\ UNCHANGED <<calls, st, file, ld, pureVars>>

\* cache.get(i) is called.
get_call(t, i) ==
    /\ task[t].pc = "idle"
    /\ calls < MaxCalls
    /\ calls' = calls + 1
    /\ task' = [task EXCEPT ![t] =
                  [IdleTask EXCEPT !.pc = "get_wait", !.id = i,
                                   !.old = lastDone[i], !.racing = InFlight(i)]]
    /\ UNCHANGED <<cache, lock, lastDone, st, hist, file, ld, pureVars>>

\* get holds the shard for reading and reads the slot through the Ref.
get_lock(t) ==
    LET i == task[t].id
        s == determine_shard(i)
    IN  /\ task[t].pc = "get_wait"
        /\ CanRead(s)
        /\ lock' = [lock EXCEPT ![s].readers = @ \cup {t}]
        /\ task' = [task EXCEPT
               ![t].pc = "get_locked",
               ![t].obs = Slot(i)]
        /\ UNCHANGED <<cache, lastDone, calls, st, hist, file, ld, pureVars>>

\* the caller has used task[t].obs; the Ref is dropped.
get_unlock(t) ==
    LET s == determine_shard(task[t].id)
    IN  /\ task[t].pc = "get_locked"
        /\ lock' = [lock EXCEPT ![s].readers = @ \ {t}]
        /\ task' = [task EXCEPT ![t] = IdleTask]
        /\ UNCHANGED <<cache, lastDone, calls, st, hist, file, ld, pureVars>>

(***************************************************************************)
(* StoreExt::store: toml::to_string(&self) serializes the map entry by     *)
(* entry through DashMap's iterator; fs::write then writes the text.  The  *)
(* iterator holds one shard for reading at a time: it takes the next       *)
(* shard's guard, then drops the guard it held, and drops the last guard   *)
(* when it ends.  The iteration is reader 0.                               *)
(***************************************************************************)
store_begin ==
    /\ st.pc = "idle"
    /\ st' = [st EXCEPT !.pc = "iter", !.shard = 0, !.held = None, !.todo = {},
                        !.snap = [i \in DOMAIN cache |-> None]]
    /\ hist' = {cache}
    /\ UNCHANGED <<cache, lock, task, lastDone, calls, file, ld, pureVars>>

\* The read guards after the iterator has taken shard s and dropped the one it held.
NextGuard(s) ==
    [x \in Shards |->
        IF x = s THEN [lock[x] EXCEPT !.readers = @ \cup {0}]
        ELSE IF st.held = Some(x) THEN [lock[x] EXCEPT !.readers = @ \ {0}]
        ELSE lock[x]]

\* the current shard is exhausted: the iterator takes the next shard for reading.
store_next_shard ==
    /\ st.pc = "iter" /\ st.todo = {} /\ st.shard < NumShards
    /\ CanRead(st.shard)
    /\ lock' = NextGuard(st.shard)
    /\ st' = [st EXCEPT !.held = Some(st.shard),
                        !.shard = @ + 1,
                        !.todo = {i \in DOMAIN cache : determine_shard(i) = st.shard}]
    /\ UNCHANGED <<cache, task, lastDone, calls, hist, file, ld, pureVars>>

\* the iterator visits the next bucket of the shard, in table order; an entry
\* found there is serialized, and a failure to serialize ends the call.
store_entry ==
    /\ st.pc = "iter" /\ st.todo # {}
    /\ \E i \in {j \in st.todo : \A k \in st.todo : j <= k} :
         LET d == IF IsSome(Slot(i)) THEN Status_serialize(Unwrap(Slot(i))) ELSE None
         IN  IF d = SerFail
             THEN /\ st' = [st EXCEPT !.pc = "done", !.result = "ser_err", !.held = None]
                  /\ lock' = [lock EXCEPT ![Unwrap(st.held)].readers = @ \ {0}]
             ELSE /\ st' = [st EXCEPT !.todo = @ \ {i},
                                      !.snap[i] = IF d = None THEN None ELSE Some(d)]
                  /\ UNCHANGED lock
    /\ UNCHANGED <<cache, task, lastDone, calls, hist, file, ld, pureVars>>

\* no shard is left: the iterator ends and drops the guard it holds.
store_end ==
    /\ st.pc = "iter" /\ st.todo = {} /\ st.shard = NumShards
    /\ lock' = [x \in Shards |->
                  IF st.held = Some(x) THEN [lock[x] EXCEPT !.readers = @ \ {0}] ELSE lock[x]]
    /\ st' = [st EXCEPT !.pc = "serialized", !.held = None]
    /\ UNCHANGED <<cache, task, lastDone, calls, hist, file, ld, pureVars>>

\* fs::write(path, serialized): the file is written, or the write fails.
store_write ==
    /\ st.pc = "serialized"
    /\ \E ok \in BOOLEAN :
         /\ st' = [st EXCEPT !.pc = "done", !.result = IF ok THEN "ok" ELSE "io_err"]
         /\ file' = IF ok THEN Some(st.snap) ELSE file
    /\ UNCHANGED <<cache, lock, task, lastDone, calls, hist, ld, pureVars>>

\* StoreExt::load: the body is todo!(), the call panics.
load ==
    /\ ld.state = "idle"
    /\ ld' = [state |-> "panicked"]
    /\ UNCHANGED <<cache, lock, task, lastDone, calls, st, hist, file, pureVars>>

IdleCmp == [a |-> MissingHost, b |-> MissingHost, eq |-> None, ha |-> None, hb |-> None]
IdleCls == [kind |-> "response", code |-> 200, accepted |-> None,
            err |-> ReqwestError(FALSE, FALSE, None, "m1"), out |-> None,
            text |-> None]
IdleIco == [a |-> Excluded, b |-> Excluded, ia |-> None, ib |-> None]

(***************************************************************************)
(* ErrorKind::eq and ErrorKind::hash applied to two values                 *)
(***************************************************************************)
InitErrorKind ==
    /\ CacheIdle(Ids)
    /\ cmp \in [a : ErrorKind, b : ErrorKind, eq : {None}, ha : {None}, hb : {None}]
    /\ cls = IdleCls
    /\ ico = IdleIco

Eq ==
    /\ cmp.eq = None
    /\ cmp' = [cmp EXCEPT !.eq = Some(ErrorKind_eq(cmp.a, cmp.b))]
    /\ UNCHANGED <<cacheVars, cls, ico>>

Hash ==
    /\ cmp.ha = None
    /\ cmp' = [cmp EXCEPT !.ha = Some(ErrorKind_hash(cmp.a)),
                          !.hb = Some(ErrorKind_hash(cmp.b))]
    /\ UNCHANGED <<cacheVars, cls, ico>>

NextErrorKind == Eq \/ Hash
SpecErrorKind == InitErrorKind /\ [][NextErrorKind]_vars

(***************************************************************************)
(* Status::new on a response, Status::from on a transport failure          *)
(***************************************************************************)
AcceptPool == {200, 302, 404, 700}
AcceptedSets == {None} \cup {Some(S) : S \in SUBSET AcceptPool}
Failures ==
    { ReqwestError(t, b, s, m) :
        t \in BOOLEAN, b \in BOOLEAN, s \in {None, Some(408), Some(504)}, m \in Texts }

InitClassify ==
    /\ CacheIdle(Ids)
    /\ cmp = IdleCmp
    /\ ico = IdleIco
    /\ \/ cls \in [kind : {"response"}, code : StatusCodes, accepted : AcceptedSets,
                   err : {IdleCls.err}, out : {None}, text : {None}]
       \/ cls \in [kind : {"failure"}, code : {IdleCls.code}, accepted : {None},
                   err : Failures, out : {None}, text : {None}]

New ==
    /\ cls.kind = "response"
    /\ cls.out = None
    /\ cls' = [cls EXCEPT !.out = Some(Status_new(cls.code, cls.accepted))]
    /\ UNCHANGED <<cacheVars, cmp, ico>>

From ==
    /\ cls.kind = "failure"
    /\ cls.out = None
    /\ cls' = [cls EXCEPT !.out = Some(From_reqwest_Error(cls.err))]
    /\ UNCHANGED <<cacheVars, cmp, ico>>

\* The verdict is displayed (to_string / format!("{}", status)).
Fmt ==
    /\ IsSome(cls.out)
    /\ cls.text = None
    /\ cls' = [cls EXCEPT !.text = Some(Status_fmt(Unwrap(cls.out)))]
    /\ UNCHANGED <<cacheVars, cmp, ico>>

NextClassify == New \/ From \/ Fmt
SpecClassify == InitClassify /\ [][NextClassify]_vars

(***************************************************************************)
(* Status::icon on two verdicts                                            *)
(***************************************************************************)
IconCauses == {Io(None, "NotFound", "m1"), Client("m1", Some(404)), MissingHost}
IconStatuses ==
    {Ok(200), Ok(204), Redirected(301), UnknownStatusCode(700), Excluded,
     Timeout(None), Timeout(Some(408))}
    \cup {Error(e) : e \in IconCauses} \cup {Unsupported(e) : e \in IconCauses}

InitIcon ==
    /\ CacheIdle(Ids)
    /\ cmp = IdleCmp
    /\ cls = IdleCls
    /\ ico \in [a : IconStatuses, b : IconStatuses, ia : {None}, ib : {None}]

Icon ==
    /\ ico.ia = None
    /\ ico' = [ico EXCEPT !.ia = Some(icon(ico.a)), !.ib = Some(icon(ico.b))]
    /\ UNCHANGED <<cacheVars, cmp, cls>>

NextIcon == Icon
SpecIcon == InitIcon /\ [][NextIcon]_vars

(***************************************************************************)
(* Properties of ErrorKind equality and hashing                            *)
(***************************************************************************)
\* Variants whose payload offers no comparison of its own, or that have no payload.
NoProjectionVariants ==
    {"Header", "MissingGitHubToken", "MissingHost", "DirTraversal", "Channel"}

\* C6: two ErrorKind values are equal iff they are the same variant and their
\* comparable projection matches: equal values are the same variant, every value
\* is equal to itself, two values of a variant without comparable payload are
\* equal whenever they are the same variant, and two Io values with the same
\* path and the same io kind are equal whatever their messages.
C6_EqIsVariantAndProjection ==
    IsSome(cmp.eq) =>
        /\ Unwrap(cmp.eq) => cmp.a.variant = cmp.b.variant
        /\ cmp.a = cmp.b => Unwrap(cmp.eq)
        /\ (cmp.a.variant = cmp.b.variant /\ cmp.a.variant \in NoProjectionVariants)
              => Unwrap(cmp.eq)
        /\ (cmp.a.variant = "Io" /\ cmp.b.variant = "Io"
              /\ cmp.a.path = cmp.b.path /\ cmp.a.kind = cmp.b.kind)
              => Unwrap(cmp.eq)

\* C7: hashing is consistent with equality: whenever eq(a, b) is true, hash
\* wrote the same values for a and for b.
C7_EqImpliesHashEq ==
    (IsSome(cmp.eq) /\ IsSome(cmp.ha) /\ Unwrap(cmp.eq)) => cmp.ha = cmp.hb

\* Two different Io values (same path and kind, different message) compared
\* equal and hashed.
C7_Witness ==
    /\ IsSome(cmp.eq) /\ IsSome(cmp.ha) /\ Unwrap(cmp.eq)
    /\ cmp.a.variant = "Io" /\ cmp.a.msg # cmp.b.msg

(***************************************************************************)
(* Properties of classification                                            *)
(***************************************************************************)
\* C8: a response whose code is in the configured accepted set yields Ok(code)
\* whatever its range; without a set, or with a set that does not contain the
\* code, the result is the default range classification alone.
C8_AcceptedWins ==
    (cls.kind = "response" /\ IsSome(cls.out)) =>
        IF IsSome(cls.accepted) /\ cls.code \in Unwrap(cls.accepted)
        THEN Unwrap(cls.out) = Ok(cls.code)
        ELSE Unwrap(cls.out) = Status_new_by_range(cls.code)

\* A 404 response classified with an accepted set containing 404.
C8_Witness ==
    /\ cls.kind = "response" /\ cls.code = 404
    /\ IsSome(cls.accepted) /\ 404 \in Unwrap(cls.accepted)
    /\ cls.out = Some(Ok(404))

\* C10: for a response whose code the accepted set does not match: 2xx yields
\* Ok(code), 3xx Redirected(code), 4xx/5xx Error with a Client cause carrying
\* the code, any other code UnknownStatusCode(code); no response yields Excluded.
C10_DefaultRanges ==
    (cls.kind = "response" /\ IsSome(cls.out)) =>
        LET c == cls.code
            out == Unwrap(cls.out)
        IN  /\ out.tag # "Excluded"
            /\ ~(IsSome(cls.accepted) /\ c \in Unwrap(cls.accepted)) =>
                 /\ c \in 200..299 => out = Ok(c)
                 /\ c \in 300..399 => out = Redirected(c)
                 /\ c \in 400..599 =>
                      /\ out.tag = "Error"
                      /\ out.cause.variant = "Client"
                      /\ out.cause.status = Some(c)
                 /\ c \notin 200..599 => out = UnknownStatusCode(c)

\* A 503 response classified without an accepted set.
C10_Witness ==
    /\ cls.kind = "response" /\ cls.code = 503 /\ cls.accepted = None
    /\ IsSome(cls.out) /\ Unwrap(cls.out).tag = "Error"

\* C11: a failure flagged as timeout yields Timeout(status of the failure),
\* also when it is flagged as a builder failure; a builder failure that is no
\* timeout yields Unsupported(Client{message, status}); any other failure
\* yields Error(Client{message, status}), message and status being those of
\* the failure; Timeout(none) displays exactly as "Timeout".
C11_FailureClassification ==
    (cls.kind = "failure" /\ IsSome(cls.out)) =>
        LET e == cls.err
            out == Unwrap(cls.out)
        IN  /\ e.timeout => out = Timeout(e.status)
            /\ (~e.timeout /\ e.builder) => out = Unsupported(Client(e.text, e.status))
            /\ (~e.timeout /\ ~e.builder) => out = Error(Client(e.text, e.status))
            /\ (IsSome(cls.text) /\ out = Timeout(None)) => cls.text = Some(<<"Timeout">>)

\* A failure flagged both as timeout and as builder failure, without a status,
\* has been classified and displayed.
C11_Witness ==
    /\ cls.kind = "failure" /\ cls.err.timeout /\ cls.err.builder
    /\ cls.err.status = None
    /\ cls.out = Some(Timeout(None))
    /\ cls.text = Some(<<"Timeout">>)

(***************************************************************************)
(* Properties of the icons                                                 *)
(***************************************************************************)
SharedIconTags == {"Excluded", "Unsupported", "UnknownStatusCode"}

\* C9 as stated: two verdicts with different tags have different icons.
C9_IconsDistinct ==
    (IsSome(ico.ia) /\ ico.a.tag # ico.b.tag) => ico.ia # ico.ib

\* C9: two verdicts with different tags have the same icon exactly when both
\* tags are among excluded, unsupported and unknown, which share one glyph.
C9_IconsDistinctExceptShared ==
    (IsSome(ico.ia) /\ ico.a.tag # ico.b.tag) =>
        (ico.ia = ico.ib <=> (ico.a.tag \in SharedIconTags /\ ico.b.tag \in SharedIconTags))

\* The icons of a timeout and of an error have been computed.
C9_Witness ==
    /\ IsSome(ico.ia) /\ ico.a.tag = "Timeout" /\ ico.b.tag = "Error"
    /\ ico.ia # ico.ib

(***************************************************************************)
(* The cache under concurrent insert and get                               *)
(***************************************************************************)
InitCache == CacheIdle(Ids) /\ cmp = IdleCmp /\ cls = IdleCls /\ ico = IdleIco

NextCache ==
    \E t \in Tasks :
        \/ \E i \in Ids, v \in RecVerdicts : insert_call(t, i, v)
        \/ insert_lock(t)
        \/ insert_unlock(t)
        \/ \E i \in Ids : get_call(t, i)
        \/ get_lock(t)
        \/ get_unlock(t)

SpecCache == InitCache /\ [][NextCache]_vars

(***************************************************************************)
(* store running while tasks insert                                        *)
(***************************************************************************)
NextStore ==
    \/ \E t \in Tasks :
        \/ \E i \in Ids, v \in RecVerdicts : insert_call(t, i, v)
        \/ insert_lock(t)
        \/ insert_unlock(t)
    \/ store_begin
    \/ store_next_shard
    \/ store_entry
    \/ store_end
    \/ store_write

SpecStore == InitCache /\ [][NextStore]_vars

(***************************************************************************)
(* store and load of a cache holding one verdict of each kind              *)
(***************************************************************************)
RtIds == 1..5
HeteroCaches ==
    { [i \in RtIds |->
         Some(CASE i = 1 -> Ok(c)
                [] i = 2 -> Redirected(r)
                [] i = 3 -> Timeout(None)
                [] i = 4 -> Error(e)
                [] i = 5 -> Unsupported(u))] :
      c \in {200, 204}, r \in {301, 308},
      e \in {x \in ErrorKind : x.variant = "Io"},
      u \in {x \in ErrorKind : x.variant = "Client"} }

InitRoundTrip ==
    /\ cache \in HeteroCaches
    /\ lastDone = cache
    /\ lock = [s \in Shards |-> [writer |-> None, readers |-> {}]]
    /\ task = [t \in Tasks |-> IdleTask]
    /\ calls = 0
    /\ st = IdleStore
    /\ hist = {}
    /\ file = None
    /\ ld = IdleLoad
    /\ cmp = IdleCmp /\ cls = IdleCls /\ ico = IdleIco

NextRoundTrip ==
    \/ store_begin
    \/ store_next_shard
    \/ store_entry
    \/ store_end
    \/ store_write
    \/ load

SpecRoundTrip == InitRoundTrip /\ [][NextRoundTrip]_vars

\* Whether the derived Serialize / Deserialize pair gives back an equal verdict.
DerivedCodecKeeps(v) ==
    /\ Status_serialize(v) # SerFail
    /\ Status_deserialize(Status_serialize(v)) # DeFail
    /\ Status_eq(Status_deserialize(Status_serialize(v)), v)

(***************************************************************************)
(* Properties of the cache                                                 *)
(***************************************************************************)
\* C1: after record(i, v) has completed, a lookup(i) that no other record(i, _)
\* overlaps returns a verdict equal to v (by Status / ErrorKind equality).
C1_LookupEqualsLastRecord ==
    \A t \in Tasks :
        (task[t].pc = "get_locked" /\ IsSome(task[t].old) /\ task[t].racing = {}) =>
            /\ IsSome(task[t].obs)
            /\ Status_eq(Unwrap(task[t].obs), Unwrap(task[t].old))

\* C2: a cache holding an Ok, a Redirected, a Timeout(none), an Error with an
\* I/O cause and an Unsupported with a client cause has been stored; load of
\* the file returns a cache with the same identifiers and equal verdicts.
C2_RoundTrip ==
    (st.pc = "done" /\ st.result = "ok" /\ ld.state # "idle") =>
        /\ ld.state = "returned"
        /\ DOMAIN ld.cache = DOMAIN cache
        /\ \A i \in DOMAIN cache :
             /\ IsSome(ld.cache[i])
             /\ Status_eq(Unwrap(ld.cache[i]), Unwrap(cache[i]))

SnapOf(h) ==
    [i \in DOMAIN h |-> IF IsSome(h[i]) THEN Some(Status_serialize(Unwrap(h[i]))) ELSE None]

\* C4 as stated: what store has serialized equals the contents the map had at
\* one single point in time during the call.
C4_ConsistentSnapshot ==
    (st.pc \in {"serialized", "done"} /\ st.result # "ser_err") =>
        \E h \in hist : st.snap = SnapOf(h)

\* C4: for every shard, what store has serialized of that shard equals the
\* contents the shard had at one point in time during the call.
C4_PerShardSnapshot ==
    (st.pc \in {"serialized", "done"} /\ st.result # "ser_err") =>
        \A s \in Shards : \E h \in hist :
            \A i \in DOMAIN cache : determine_shard(i) = s => st.snap[i] = SnapOf(h)[i]

\* store has completed while records completed during the call, and wrote an entry.
C4_Witness ==
    /\ st.pc = "done" /\ st.result = "ok"
    /\ Cardinality(hist) >= 2
    /\ \E i \in DOMAIN cache : IsSome(st.snap[i])

\* C5: insert returns the verdict that was stored for the identifier when the
\* call took effect, and none exactly when the identifier was absent.
C5_InsertReturnsPrevious ==
    \A t \in Tasks :
        task[t].pc = "insert_locked" =>
            /\ task[t].ret = task[t].old
            /\ task[t].ret = None <=> ~IsSome(lastDone[task[t].id])

\* An insert over an existing entry is about to return the previous verdict.
C5_Witness ==
    \E t \in Tasks :
        /\ task[t].pc = "insert_locked"
        /\ IsSome(task[t].ret)
        /\ task[t].ret # Some(task[t].v)
====
